---- MODULE Spec2Model ----
(***************************************************************************)
(* Details page of the site: the floating document nodes of                *)
(* src/src/details-scene.js (initDetailsScene), their per-frame update     *)
(* (animate), the pointer handler (onMouseClick / closeReadingPane) and    *)
(* the theme-change listener.                                              *)
(*                                                                         *)
(* Numbers.  The code computes in IEEE doubles.  Here every length,        *)
(* velocity and opacity is a fixed-point integer counting thousandths      *)
(* (1000 stands for 1.0), quotients and square roots are truncated  *)
(* to that resolution, and the value NaN is kept as a separate value with  *)
(* the arithmetic and comparison rules of JavaScript (any operation on     *)
(* NaN gives NaN, any comparison with NaN is false).                       *)
(***************************************************************************)
EXTENDS Integers, Sequences, FiniteSets, TLC

\* ---------------------------------------------------------------- bounds
\* Number of .detail-section elements of the page (one node each).
NumNodes == 3
\* Number of animation frames explored (animate() runs once per frame).
MaxFrames == 2
\* Number of pointer presses (mousedown / touchstart) explored.
MaxSelects == 2

\* theme-button clicks followed on a page
MaxClicks == 2

\* explosions of the landing core followed
MaxExplosions == 2

\* ------------------------------------------------------ program constants
\* const minDistance = 9.0
MinDistance == 9000
\* force = 0.001 * (minDistance - dist): the divisor of the factor 0.001
ForceDivisor == 1000
\* const limitX = 14
LimitX == 14000
\* const limitY = 7
LimitY == 7000
\* if (group.position.z > 5)
LimitZHigh == 5000
\* if (group.position.z < -10)
LimitZLow == -10000
\* Math.sin(time + group.id) * 0.002
SwayAmplitude == 2
\* THREE.MathUtils.lerp(current, target, 0.1): the divisor of the factor 0.1
LerpDivisor == 10
\* opacity targets of the drifting branch and of the frozen branch
LabelDriftOpacity == 900
CrystalDriftOpacity == 500
LabelFrozenOpacity == 50
CrystalFrozenOpacity == 100
CoreFrozenOpacity == 200
\* new THREE.MeshBasicMaterial({ color: 0xffffff }): default opacity 1
CoreInitialOpacity == 1000

\* ------------------------------------------------------- JavaScript numbers
\* The value NaN (outside the range of every number the model reaches).
NaN == 1000000000

IsNaN(a) == a = NaN

Add(a, b) == IF IsNaN(a) \/ IsNaN(b) THEN NaN ELSE a + b

Sub(a, b) == IF IsNaN(a) \/ IsNaN(b) THEN NaN ELSE a - b

Neg(a) == IF IsNaN(a) THEN NaN ELSE 0 - a

Mul(a, b) == IF IsNaN(a) \/ IsNaN(b) THEN NaN ELSE a * b

\* a > b and a < b of JavaScript: false when either side is NaN
Gt(a, b) == ~IsNaN(a) /\ ~IsNaN(b) /\ a > b

Lt(a, b) == ~IsNaN(a) /\ ~IsNaN(b) /\ a < b

Ge(a, b) == ~IsNaN(a) /\ ~IsNaN(b) /\ a >= b

Abs(a) == IF a < 0 THEN 0 - a ELSE a

\* quotient truncated toward zero (b > 0)
TruncDiv(a, b) == IF a >= 0 THEN a \div b ELSE 0 - ((0 - a) \div b)

\* Math.sqrt at the model's resolution: the largest r with r * r <= n,
\* found by bisection on lo <= r < hi
RECURSIVE SqrtBetween(_, _, _)
SqrtBetween(n, lo, hi) ==
    IF hi - lo <= 1 THEN lo
    ELSE LET mid == (lo + hi) \div 2
         IN  IF mid * mid <= n THEN SqrtBetween(n, mid, hi)
             ELSE SqrtBetween(n, lo, mid)

Sqrt(n) == SqrtBetween(n, 0, MinDistance + 1)

\* ------------------------------------------------------------------ vectors
VecAdd(u, v) == <<Add(u[1], v[1]), Add(u[2], v[2]), Add(u[3], v[3])>>

VecSub(u, v) == <<Sub(u[1], v[1]), Sub(u[2], v[2]), Sub(u[3], v[3])>>

VecHasNaN(u) == IsNaN(u[1]) \/ IsNaN(u[2]) \/ IsNaN(u[3])

Dot(u, v) == Add(Add(Mul(u[1], v[1]), Mul(u[2], v[2])), Mul(u[3], v[3]))

\* -------------------------------------------------- animate: repulsion phase
\* distSq < minDistance, the threshold left unsquared (1000 * 1000 is 1.0
\* for a square of thousandths)
IsCloseUnsquared(d) ==
    /\ ~VecHasNaN(d)
    /\ Abs(d[1]) < MinDistance /\ Abs(d[2]) < MinDistance /\ Abs(d[3]) < MinDistance
    /\ d[1] * d[1] + d[2] * d[2] + d[3] * d[3] < MinDistance * 1000

\* distSq < minDistance * minDistance for the difference vector d.  A
\* component of minDistance or more already makes the sum at least
\* minDistance squared; testing it first keeps the squares small.
IsClose(d) ==
    /\ ~VecHasNaN(d)
    /\ Abs(d[1]) < MinDistance /\ Abs(d[2]) < MinDistance /\ Abs(d[3]) < MinDistance
    /\ d[1] * d[1] + d[2] * d[2] + d[3] * d[3] < MinDistance * MinDistance

\* (dx / dist) * force with force = 0.001 * (minDistance - dist); 0 / 0 is NaN
ImpulseComponent(dc, dist) ==
    IF dist = 0 THEN NaN
    ELSE TruncDiv(dc * (MinDistance - dist), dist * ForceDivisor)

\* the impulse with the sign of the force reversed (dist - minDistance)
PairImpulseAttracts(p1, p2) ==
    LET d    == VecSub(p2, p1)
        dist == Sqrt(d[1] * d[1] + d[2] * d[2] + d[3] * d[3])
    IN  <<ImpulseComponent(d[1], dist), ImpulseComponent(d[2], dist),
          ImpulseComponent(d[3], dist)>>

\* What one pass of the inner loop body adds to n1's velocity and subtracts
\* from n2's, for positions p1 and p2 closer than minDistance.
PairImpulse(p1, p2) ==
    LET d    == VecSub(p1, p2)
        dist == Sqrt(d[1] * d[1] + d[2] * d[2] + d[3] * d[3])
    IN  <<ImpulseComponent(d[1], dist), ImpulseComponent(d[2], dist),
          ImpulseComponent(d[3], dist)>>

\* the body of the inner loop without the test of isFrozen
RepelPairIgnoresFrozen(ns, i, j) ==
    IF ~IsClose(VecSub(ns[i].position, ns[j].position)) THEN ns
    ELSE LET imp == PairImpulse(ns[i].position, ns[j].position)
         IN  [ns EXCEPT ![i].velocity = VecAdd(@, imp),
                        ![j].velocity = VecSub(@, imp)]

\* the body of the inner loop for the pair nodes[i], nodes[j]
RepelPair(ns, i, j) ==
    IF ns[i].isFrozen \/ ns[j].isFrozen THEN ns
    ELSE IF ~IsClose(VecSub(ns[i].position, ns[j].position)) THEN ns
    ELSE LET imp == PairImpulse(ns[i].position, ns[j].position)
         IN  [ns EXCEPT ![i].velocity = VecAdd(@, imp),
                        ![j].velocity = VecSub(@, imp)]

\* for (i ...) for (j = i + 1 ...): the loops from the pair (i, j) on
RECURSIVE RepelFrom(_, _, _)
RepelFrom(ns, i, j) ==
    IF i > Len(ns) THEN ns
    ELSE IF j > Len(ns) THEN RepelFrom(ns, i + 1, i + 2)
    ELSE RepelFrom(RepelPair(ns, i, j), i, j + 1)

CollisionAvoidance(ns) == RepelFrom(ns, 1, 2)

\* ------------------------------------------------------ animate: node loop
\* Math.sin sampled at quarter periods
SinTable == <<0, 1, 0, -1>>

\* Math.sin(time + group.id) * 0.002: time is the sampled clock reading t,
\* and the i-th group's id shifts its phase by i samples
Sway(t, i) == SinTable[((t + i) % Len(SinTable)) + 1] * SwayAmplitude

\* an easing that sets the value to its target at once
LerpJumps(x, y) == y

\* THREE.MathUtils.lerp(x, y, 0.1) = (1 - 0.1) * x + 0.1 * y
Lerp(x, y) == TruncDiv((LerpDivisor - 1) * x + y, LerpDivisor)

\* the bounds check that turns the velocity round but leaves the position
\* beyond the bound
ReflectWithoutClamp(p, v, lo, hi) ==
    IF Gt(p, hi) \/ Lt(p, lo) THEN <<p, Neg(v)>> ELSE <<p, v>>

\* the bounds check that clamps the position but keeps the velocity
ReflectKeepsVelocity(p, v, lo, hi) ==
    IF Gt(p, hi) THEN <<hi, v>> ELSE IF Lt(p, lo) THEN <<lo, v>> ELSE <<p, v>>

\* if (p > hi) { p = hi; v *= -1 }  if (p < lo) { p = lo; v *= -1 }
\* on one axis: the pair <<position component, velocity component>>
Reflect(p, v, lo, hi) ==
    LET a == IF Gt(p, hi) THEN <<hi, Neg(v)>> ELSE <<p, v>>
    IN  IF Lt(a[1], lo) THEN <<lo, Neg(a[2])>> ELSE a

\* group.position.add(data.velocity)
Drift(n) == VecAdd(n.position, n.velocity)

\* the drifting branch of the node loop for one node; s is its sway
AnimateDrifting(n, s) ==
    LET p == Drift(n)
        x == Reflect(p[1], n.velocity[1], 0 - LimitX, LimitX)
        y == Reflect(p[2], n.velocity[2], 0 - LimitY, LimitY)
        z == Reflect(p[3], n.velocity[3], LimitZLow, LimitZHigh)
    IN  [n EXCEPT !.position = <<x[1], Add(y[1], s), z[1]>>,
                  !.velocity = <<x[2], y[2], z[2]>>,
                  !.labelOpacity = Lerp(@, LabelDriftOpacity),
                  !.crystalOpacity = Lerp(@, CrystalDriftOpacity)]

\* a frozen branch that lets go of the node once it has dimmed it
AnimateFrozenReleases(n) ==
    [n EXCEPT !.labelOpacity = Lerp(@, LabelFrozenOpacity),
              !.crystalOpacity = Lerp(@, CrystalFrozenOpacity),
              !.isFrozen = FALSE]

\* the frozen branch: only the opacities of the node's own materials
AnimateFrozen(n) ==
    [n EXCEPT !.labelOpacity = Lerp(@, LabelFrozenOpacity),
              !.crystalOpacity = Lerp(@, CrystalFrozenOpacity)]

\* the node loop without the test of isFrozen: every node drifts
AnimateNodeAlwaysDrifts(n, s) ==
    AnimateDrifting([n EXCEPT !.rotation = @ + n.rotationSpeed], s)

\* one pass of nodes.forEach for one node
AnimateNode(n, s) ==
    LET r == [n EXCEPT !.rotation = @ + n.rotationSpeed]
    IN  IF ~r.isFrozen THEN AnimateDrifting(r, s) ELSE AnimateFrozen(r)

\* crystalCoreMat is one material shared by every core: the frozen branch
\* eases its opacity once for each frozen node of the loop
RECURSIVE AnimateCore(_, _, _)
AnimateCore(ns, i, core) ==
    IF i > Len(ns) THEN core
    ELSE AnimateCore(ns, i + 1,
                     IF ns[i].isFrozen THEN Lerp(core, CoreFrozenOpacity) ELSE core)

\* nodes.forEach(group => ...) on the nodes left by the repulsion phase
AnimateNodes(ns, t) == [i \in 1..Len(ns) |-> AnimateNode(ns[i], Sway(t, i))]

\* ------------------------------------------------------------------- state
VARIABLES
    page,             \* the page given to initDetailsScene (index into Pages)
    nodes,            \* nodes[i]: the i-th group with its userData and materials
    coreOpacity,      \* crystalCoreMat.opacity (one material for every core)
    activeNodeGroup,  \* 0 for null, else the index of the group
    paneOrigin,       \* #reading-pane: "none", made by the "page" or "created" here
    readingPane,      \* inline style of #reading-pane
    readingContent,   \* #reading-content: whether it exists, and its innerHTML
    sectionDisplay,   \* style.display of every .detail-section of the page
    listeners,        \* event types this scene has a listener for on window
    frameLoop,        \* animate has been called: a next frame is always requested
    viewport,         \* size given to camera, renderer, composer and bloomPass
    nodeColor,        \* CONFIG.nodeColor
    frames,           \* calls of animate() so far
    selects,          \* calls of onMouseClick so far
    time,             \* clock sample read by the last animate()
    started,          \* the nodes as the last animate() found them
    repelled,         \* velocities at the end of the last repulsion phase
    drifted,          \* positions after position.add(velocity) of the last frame
    notified,         \* what the last handler told the reading pane
    thrown,           \* the last handler ended with an uncaught exception
    lastSelect,       \* the last call of onMouseClick
    pressInside       \* event.target of the last press lay in the reading pane

\* the state of the details scene that its handlers read and write
sceneVars == <<page, nodes, coreOpacity, activeNodeGroup, paneOrigin,
               readingPane, readingContent, sectionDisplay, listeners,
               frameLoop, viewport, nodeColor, frames, selects, time, started,
               repelled, drifted, notified, thrown, lastSelect>>

\* the entry script of a page (src/main.js, src/details-main.js,
\* src/docs-main.js) with the loader and the theme that it handles
VARIABLES
    script,           \* which page's entry script has run
    storedTheme,      \* the text of localStorage item 'theme'
    cssTheme,         \* the custom properties set on documentElement.style
    sceneTheme,       \* the page's 3D scene: whether built, and its colours
    dispatches,       \* pending timeouts of applyTheme, in order of expiry
    themeButtons,     \* the .theme-btn click listeners are registered
    bodyLoaded,       \* document.body has class 'loaded'
    overlay,          \* #loader-overlay: "shown", "removed", or "absent"
    loadListener,     \* removeLoader waits for the window's load event
    loaderTimers,     \* pending timeouts of the loader, by callback
    booted,           \* what the entry script was given and did as it ran
    clicks            \* the .theme-btn clicks so far: the button, and the
                      \* dispatches pending when it was clicked

pageVars == <<script, storedTheme, cssTheme, sceneTheme, dispatches,
              themeButtons, bodyLoaded, overlay, loadListener, loaderTimers,
              booted, clicks>>

\* the part of the landing scene (src/scene.js) that explodes the core
VARIABLES
    isExploded,           \* let isExploded
    coreVisible,          \* core.visible
    isHovered,            \* let isHovered
    explosionParticles,   \* explosionParticles is an object (not null)
    explosionVelocities,  \* explosionVelocities.length
    uOpacity,             \* explosionMat.uniforms.uOpacity.value
    respawnTimers,        \* pending setTimeout(respawnCore, 4000)
    explosions,           \* calls of triggerExplosion so far
    lastClick             \* what the last document click did

landingVars == <<isExploded, coreVisible, isHovered, explosionParticles,
                 explosionVelocities, uOpacity, respawnTimers, explosions,
                 lastClick>>

\* what a handler of the details scene leaves alone besides sceneVars
elsewhere == <<pageVars, landingVars>>

vars == <<sceneVars, pressInside, pageVars, landingVars>>

\* the indices of the nodes array
NodeIds == 1..Len(nodes)

\* the colour of a scene that is given no theme (0x00ffff)
DefaultColor == "00ffff"

\* ------------------------------------------------- entry scripts: JS values
\* the value undefined, and what a template literal or setProperty makes of it
Undefined == "undefined"

\* White: new THREE.Color() with nothing to set it, r = g = b = 1
White == "ffffff"

\* What localStorage.getItem('theme') can return, by what JSON.parse makes
\* of it: null (no item), a text that is not JSON, the texts 'null', of a
\* falsy value (0, false, ""), of a truthy value that is no object (5, true,
\* "x"), and of an object with color and bg
NoItem == [json |-> "none", color |-> "", bg |-> ""]

Text(kind) == [json |-> kind, color |-> "", bg |-> ""]

\* JSON.stringify({ color, bg }) for two attribute strings
Stringify(color, bg) == [json |-> "object", color |-> color, bg |-> bg]

\* JSON.parse(text): a SyntaxError, or the value; color and bg are what
\* value.color and value.bg give (undefined on a number, boolean or string)
JSONParse(text) ==
    CASE text.json = "invalid" ->
            [type |-> "SyntaxError", color |-> Undefined, bg |-> Undefined]
      [] text.json = "object" ->
            [type |-> "object", color |-> text.color, bg |-> text.bg]
      [] OTHER -> [type |-> text.json, color |-> Undefined, bg |-> Undefined]

Null == [type |-> "null", color |-> Undefined, bg |-> Undefined]

\* if (value): null, 0, false and "" are falsy
Truthy(value) == value.type \in {"truthy", "object"}

\* reading value.color, or destructuring { color, bg } = value, throws a
\* TypeError on null
ReadThrows(value) == value.type = "null"

\* new THREE.Color(x).getHex(): a style string sets the colour, undefined
\* leaves the white of the constructor
Color(x) == IF x = Undefined THEN White ELSE x

\* the three custom properties applyTheme sets: --color-primary, --color-bg
\* and --glass-border (`${color}33`)
CssOf(color, bg) == [primary |-> color, bg |-> bg, border |-> <<color, "33">>]

\* no custom property set on documentElement.style: the stylesheet's values
CssUnset == [primary |-> "", bg |-> "", border |-> <<>>]

\* the entry scripts: src/main.js, src/details-main.js, src/docs-main.js
Scripts == {"landing", "details", "docs"}

\* the scene's colours when it is given no theme: 0x00ffff with 0x050505 on
\* the landing page and 0x02020a on the others
DefaultTheme(s) ==
    [color |-> DefaultColor, bg |-> IF s = "landing" THEN "050505" ELSE "02020a"]

\* data-color and data-bg of the .theme-btn elements of a page
ThemeButtons ==
    << [color |-> "ff0055", bg |-> "0a0005"], [color |-> "00ff88", bg |-> "000a05"] >>

\* what the 'theme' item can hold when a page is opened: nothing, any of the
\* texts above, or what a click on a theme button stored
StoredItems ==
    {NoItem, Text("invalid"), Text("null"), Text("falsy"), Text("truthy"),
     Stringify(ThemeButtons[1].color, ThemeButtons[1].bg)}

\* let initialTheme = null; if (savedTheme) { try { initialTheme =
\* JSON.parse(savedTheme) ... } catch {} }
InitialTheme(item) ==
    IF item = NoItem THEN Null
    ELSE IF JSONParse(item).type = "SyntaxError" THEN Null
    ELSE JSONParse(item)

\* the custom properties after the first try block: details-main.js and
\* docs-main.js set them from initialTheme (reading .color of null throws
\* before any is set), main.js sets none there
PreApplied(s, item) ==
    IF s = "landing" \/ item = NoItem THEN CssUnset
    ELSE IF JSONParse(item).type = "SyntaxError" \/ ReadThrows(JSONParse(item))
    THEN CssUnset
    ELSE CssOf(JSONParse(item).color, JSONParse(item).bg)

\* initScene / initDetailsScene / initDocsScene up to primaryC and bgC: a
\* falsy initialTheme is replaced by what the scene parses from the item
\* itself, and a truthy one gives new THREE.Color(initialTheme.color)
SceneColours(s, item) ==
    LET given == InitialTheme(item)
        own   == IF Truthy(given) \/ item = NoItem THEN given
                 ELSE IF JSONParse(item).type = "SyntaxError" THEN given
                 ELSE JSONParse(item)
    IN  IF Truthy(own) THEN [color |-> Color(own.color), bg |-> Color(own.bg)]
        ELSE DefaultTheme(s)

\* "Apply saved theme": if (savedTheme) { try { const { color, bg } =
\* JSON.parse(savedTheme); applyTheme(color, bg) } catch {} }: the calls of
\* applyTheme made, as a sequence of their arguments
StartupThemes(item) ==
    IF item = NoItem THEN <<>>
    ELSE IF JSONParse(item).type = "SyntaxError" \/ ReadThrows(JSONParse(item))
    THEN <<>>
    ELSE << [color |-> JSONParse(item).color, bg |-> JSONParse(item).bg] >>

\* no pending timeout of the loader
NoTimers == [fallback |-> 0, adding |-> 0, removing |-> 0]

\* the state of the page variables where no entry script is looked at
NoScript ==
    /\ script = "none"
    /\ storedTheme = NoItem
    /\ cssTheme = CssUnset
    /\ sceneTheme = [built |-> FALSE, color |-> "", bg |-> ""]
    /\ dispatches = <<>>
    /\ themeButtons = FALSE
    /\ bodyLoaded = FALSE
    /\ overlay = "absent"
    /\ loadListener = FALSE
    /\ loaderTimers = NoTimers
    /\ booted = [item |-> NoItem, container |-> FALSE, glFails |-> FALSE,
                 ready |-> FALSE,
                 scene |-> [built |-> FALSE, color |-> "", bg |-> ""],
                 startup |-> <<>>]
    /\ clicks = <<>>

\* --------------------------------------------- landing scene: the explosion
\* const particleCount = 2000 in triggerExplosion
ParticleCount == 2000

\* the landing scene as initScene leaves it (and the variables of a page
\* that has no such scene): the core in place, nothing exploded
NotExploded ==
    /\ isExploded = FALSE
    /\ coreVisible = TRUE
    /\ isHovered = FALSE
    /\ explosionParticles = FALSE
    /\ explosionVelocities = 0
    /\ uOpacity = 0
    /\ respawnTimers = 0
    /\ explosions = 0
    /\ lastClick = "none"

\* --------------------------------------------------------- the page (inputs)
\* ids of the .detail-section elements in document order
SectionIds == <<"overview", "features", "roadmap", "team">>

\* h2 titles are not modelled beyond being non-empty; rotationSpeed is
\* (Math.random() - 0.5) * 0.01 + 0.002, in thousandths
RotationSpeeds == <<2, -3, 7, 5>>

\* (Math.random() - 0.5) * 40 / 25 / 20 per axis: sample layouts.
\* 1: three nodes on a line, all within minDistance of each other;
\* 2: nodes outside the bounds, two beyond the same corner;
\* 3: one pair within minDistance, the first node at exactly minDistance
\*    from a node of the pair, the other nodes far from every node.
InitialPositions ==
    << << <<0, 0, 0>>, <<8000, 0, 0>>, <<-500, 0, 0>>, <<0, 3000, 0>> >>,
       << <<15000, 8000, 6000>>, <<-15000, -8000, -10500>>,
          <<16000, 9000, 7000>>, <<0, 0, 0>> >>,
       << <<1000, 3000, 2000>>, <<13000, 6000, 4000>>, <<10000, 3000, 2000>>,
          <<-13000, 6000, 4000>> >> >>

\* (Math.random() - 0.5) * 0.0015 per axis: the velocities of each layout
InitialVelocities ==
    << << <<1, 0, 0>>, <<0, -1, 0>>, <<0, 0, 1>>, <<-1, 1, 0>> >>,
       << <<-1, 1, -1>>, <<1, 1, 1>>, <<0, 0, 0>>, <<1, -1, 0>> >>,
       << <<1, -1, 1>>, <<-1, 0, 1>>, <<0, 1, -1>>, <<1, 1, 0>> >> >>

Wrap(seq, i) == seq[((i - 1) % Len(seq)) + 1]

\* theme colours a theme-change event can carry
Themes == {"ff0055"}

\* inline style of the pane as created by initDetailsScene / after a hide
HiddenStyle == [opacity |-> "0", pointerEvents |-> "none", scale |-> "0.9"]

\* inline style after a show
ShownStyle == [opacity |-> "1", pointerEvents |-> "auto", scale |-> "1"]

NoSelect == [hit |-> 0, target |-> 0, wasActive |-> 0, notes |-> <<>>]

\* sections.forEach((section, index) => ...): the group of the i-th section;
\* noId is the index of a section without an id attribute (0: every section
\* has one), whose section.id is the empty string
NewNode(i, layout, noId) ==
    [position          |-> Wrap(InitialPositions[layout], i),
     velocity          |-> Wrap(InitialVelocities[layout], i),
     rotationSpeed     |-> Wrap(RotationSpeeds, i),
     originalSectionId |-> IF i = noId THEN "" ELSE Wrap(SectionIds, i),
     isFrozen          |-> FALSE,
     rotation          |-> 0,
     labelOpacity      |-> LabelDriftOpacity,
     crystalOpacity    |-> CrystalDriftOpacity,
     crystalColor      |-> DefaultColor,
     labelColor        |-> DefaultColor]

\* The pages initDetailsScene can be given.  layout: the sample of the random
\* positions and velocities; sections: the number of .detail-section elements;
\* noId: the index of a section without an id attribute (0: every section has
\* one); container: whether getElementById(containerId) finds an element;
\* pane: "none" when the page has no #reading-pane, "page" when its markup
\* already has one (which then holds no #reading-content)
Pages ==
    << [layout |-> 1, sections |-> NumNodes, noId |-> 0, container |-> TRUE,
        pane |-> "none"],
       [layout |-> 2, sections |-> NumNodes, noId |-> 0, container |-> TRUE,
        pane |-> "none"],
       [layout |-> 3, sections |-> NumNodes, noId |-> NumNodes, container |-> TRUE,
        pane |-> "none"],
       [layout |-> 1, sections |-> NumNodes, noId |-> 0, container |-> TRUE,
        pane |-> "page"],
       [layout |-> 1, sections |-> 0, noId |-> 0, container |-> TRUE,
        pane |-> "none"],
       [layout |-> 1, sections |-> NumNodes, noId |-> 0, container |-> FALSE,
        pane |-> "none"] >>

\* the inline style of an element that is not there
NoStyle == [opacity |-> "", pointerEvents |-> "", scale |-> ""]

\* window.addEventListener(...) of lines 316, 317, 442 and 455
AllListeners == {"mousedown", "touchstart", "resize", "theme-change"}

\* the window sizes a resize can report; the page is opened in the first
Viewports == <<"landscape", "portrait">>

\* sections.forEach((section, index) => ...) over the sections of the page p
NewNodes(p) ==
    IF Pages[p].sections = 0 THEN <<>>
    ELSE [i \in 1..Pages[p].sections |->
             NewNode(i, Pages[p].layout, Pages[p].noId)]

\* the part of the state that counts and records what the handlers did
Fresh ==
    /\ activeNodeGroup = 0
    /\ viewport = Viewports[1]
    /\ nodeColor = DefaultColor
    /\ frames = 0
    /\ selects = 0
    /\ time = 0
    /\ started = nodes
    /\ repelled = [i \in NodeIds |-> nodes[i].velocity]
    /\ drifted = [i \in NodeIds |-> nodes[i].position]
    /\ notified = <<>>
    /\ thrown = FALSE
    /\ lastSelect = NoSelect
    /\ pressInside = FALSE

\* initDetailsScene returning at line 10: nothing of the page is touched
Untouched(p) ==
    /\ nodes = <<>>
    /\ coreOpacity = CoreInitialOpacity
    /\ paneOrigin = Pages[p].pane
    /\ readingPane = IF Pages[p].pane = "none" THEN NoStyle ELSE HiddenStyle
    /\ readingContent = [exists |-> FALSE, html |-> 0]
    /\ sectionDisplay = [i \in 1..Pages[p].sections |-> "block"]
    /\ listeners = {}
    /\ frameLoop = FALSE
    /\ Fresh

\* initDetailsScene from line 12 to its call of animate(), with the
\* listeners of lines 442 and 455 that it adds right after that call (no
\* event is delivered before it returns): the sections are hidden, there is
\* a node for each of them, and the reading pane is the page's or, if the
\* page has none, the one of lines 219-263 with its #reading-content (html
\* 0: still empty, else the index of the section whose innerHTML was copied
\* into it).  The pane of a page's own markup is taken to be hidden.
Constructed(p) ==
    /\ nodes = NewNodes(p)
    /\ coreOpacity = CoreInitialOpacity
    /\ paneOrigin = IF Pages[p].pane = "none" THEN "created" ELSE "page"
    /\ readingPane = HiddenStyle
    /\ readingContent = [exists |-> Pages[p].pane = "none", html |-> 0]
    /\ sectionDisplay = [i \in 1..Pages[p].sections |-> "none"]
    /\ listeners = AllListeners
    /\ frameLoop = TRUE
    /\ Fresh

\* initDetailsScene without the test of line 10
InitWithoutContainerTest ==
    /\ \E p \in 1..Len(Pages) : page = p /\ Constructed(p)
    /\ NoScript
    /\ NotExploded

\* export function initDetailsScene(containerId, initialTheme)
Init ==
    /\ \E p \in 1..Len(Pages) :
           /\ page = p
           /\ IF ~Pages[p].container THEN Untouched(p) ELSE Constructed(p)
    /\ NoScript
    /\ NotExploded

\* ----------------------------------------------------------------- animate
\* clock samples (phases of the sway) a frame can read
Times == {0, 1}

\* function animate(): the first call is made by initDetailsScene itself,
\* the later ones by requestAnimationFrame; most is the number of calls
\* followed
AnimateWithin(t, most) ==
    /\ frameLoop
    /\ frames < most
    /\ LET pushed == CollisionAvoidance(nodes)
       IN  /\ repelled' = [i \in NodeIds |-> pushed[i].velocity]
           /\ drifted' = [i \in NodeIds |->
                            IF pushed[i].isFrozen THEN pushed[i].position
                            ELSE Drift(pushed[i])]
           /\ nodes' = AnimateNodes(pushed, t)
           /\ coreOpacity' = AnimateCore(pushed, 1, coreOpacity)
    /\ time' = t
    /\ started' = nodes
    /\ frames' = frames + 1
    /\ notified' = <<>>
    /\ thrown' = FALSE
    /\ UNCHANGED <<page, activeNodeGroup, paneOrigin, readingPane, readingContent,
                   sectionDisplay, listeners, frameLoop, viewport, nodeColor,
                   selects, lastSelect>>

\* requestAnimationFrame(animate), followed for MaxFrames calls
Animate(t) == AnimateWithin(t, MaxFrames)

\* ---------------------------------------------------------- pointer handler
\* what the handler tells the reading pane: show the content of a section,
\* or hide
Show(id) == [type |-> "show", id |-> id]

Hide == [type |-> "hide", id |-> ""]

\* the scene graph above an object hit by the ray: the crystal and the
\* sprite are children of the group, the core of the crystal, the group of
\* nodesGroup
Parent(obj) ==
    CASE obj.kind = "core" -> [kind |-> "crystal", node |-> obj.node]
      [] obj.kind \in {"crystal", "sprite"} -> [kind |-> "group", node |-> obj.node]
      [] OTHER -> [kind |-> "nodesGroup", node |-> 0]

\* obj.userData.originalSectionId: only a group's userData has one; "" is
\* the falsy value (absent, or the id of a section without id)
SectionIdOf(obj) ==
    IF obj.kind = "group" THEN nodes[obj.node].originalSectionId ELSE ""

\* lines 286-291: the group the hit object belongs to, 0 for null
TargetGroup(hitObj) ==
    LET hitGroup == Parent(hitObj)
    IN  IF SectionIdOf(hitGroup) # "" THEN hitGroup.node
        ELSE IF SectionIdOf(Parent(hitGroup)) # "" THEN Parent(hitGroup).node
        ELSE 0

\* document.getElementById(id) among the sections: the first in document
\* order with that id, 0 for null
GetSectionById(id) ==
    IF \E i \in NodeIds : nodes[i].originalSectionId = id
    THEN CHOOSE i \in NodeIds :
            /\ nodes[i].originalSectionId = id
            /\ \A j \in NodeIds : nodes[j].originalSectionId = id => i <= j
    ELSE 0

\* closeReadingPane that hides the pane but leaves the active group frozen
CloseKeepsFrozen ==
    /\ readingPane' = HiddenStyle
    /\ notified' = <<Hide>>
    /\ UNCHANGED <<nodes, activeNodeGroup, readingContent>>

\* closeReadingPane that touches the pane only when a group is active
CloseOnlyWhenActive ==
    /\ nodes' = IF activeNodeGroup # 0
                THEN [nodes EXCEPT ![activeNodeGroup].isFrozen = FALSE]
                ELSE nodes
    /\ activeNodeGroup' = 0
    /\ readingPane' = IF activeNodeGroup # 0 THEN HiddenStyle ELSE readingPane
    /\ notified' = IF activeNodeGroup # 0 THEN <<Hide>> ELSE <<>>
    /\ UNCHANGED readingContent

\* function closeReadingPane()
CloseReadingPane ==
    /\ nodes' = IF activeNodeGroup # 0
                THEN [nodes EXCEPT ![activeNodeGroup].isFrozen = FALSE]
                ELSE nodes
    /\ activeNodeGroup' = 0
    /\ readingPane' = HiddenStyle
    /\ notified' = <<Hide>>
    /\ UNCHANGED readingContent

\* the select branch without "Reset old node"
SelectKeepsOld(target) ==
    LET sectionId     == nodes[target].originalSectionId
        sourceSection == GetSectionById(sectionId)
    IN  /\ nodes' = [nodes EXCEPT ![target].isFrozen = TRUE]
        /\ activeNodeGroup' = target
        /\ IF sourceSection # 0 /\ readingContent.exists
           THEN /\ readingContent' = [readingContent EXCEPT !.html = sourceSection]
                /\ readingPane' = ShownStyle
                /\ notified' = <<Show(sectionId)>>
           ELSE /\ UNCHANGED <<readingContent, readingPane>>
                /\ notified' = <<>>

\* the select branch closing the pane of the old group before it shows the
\* new one
SelectHidesFirst(target) ==
    LET released      == IF activeNodeGroup # 0
                         THEN [nodes EXCEPT ![activeNodeGroup].isFrozen = FALSE]
                         ELSE nodes
        sectionId     == nodes[target].originalSectionId
        sourceSection == GetSectionById(sectionId)
    IN  /\ nodes' = [released EXCEPT ![target].isFrozen = TRUE]
        /\ activeNodeGroup' = target
        /\ IF sourceSection # 0 /\ readingContent.exists
           THEN /\ readingContent' = [readingContent EXCEPT !.html = sourceSection]
                /\ readingPane' = ShownStyle
                /\ notified' = IF activeNodeGroup # 0
                               THEN <<Hide, Show(sectionId)>>
                               ELSE <<Show(sectionId)>>
           ELSE /\ UNCHANGED <<readingContent, readingPane>>
                /\ notified' = <<>>

\* lines 294-308: the branch taken for a target that is not the active group
SelectGroup(target) ==
    LET released      == IF activeNodeGroup # 0
                         THEN [nodes EXCEPT ![activeNodeGroup].isFrozen = FALSE]
                         ELSE nodes
        sectionId     == nodes[target].originalSectionId
        sourceSection == GetSectionById(sectionId)
    IN  /\ nodes' = [released EXCEPT ![target].isFrozen = TRUE]
        /\ activeNodeGroup' = target
        /\ IF sourceSection # 0 /\ readingContent.exists
           THEN /\ readingContent' = [readingContent EXCEPT !.html = sourceSection]
                /\ readingPane' = ShownStyle
                /\ notified' = <<Show(sectionId)>>
           ELSE /\ UNCHANGED <<readingContent, readingPane>>
                /\ notified' = <<>>

\* closeReadingPane reads a property of null: activeNodeGroup.userData is
\* read only under if (activeNodeGroup), readingPane.style (line 271) always
CloseThrows == paneOrigin = "none"

\* the select branch writing readingContent.innerHTML without the test of
\* line 303
SelectThrowsUnguarded(target) ==
    \/ ~readingContent.exists
    \/ GetSectionById(nodes[target].originalSectionId) = 0
    \/ paneOrigin = "none"

\* the select branch reads a property of null: the old activeNodeGroup is
\* read only under if (activeNodeGroup), sourceSection.innerHTML and
\* readingContent.innerHTML only under the test of line 303, and
\* readingPane.style (line 305) under that test only
SelectThrows(target) ==
    /\ GetSectionById(nodes[target].originalSectionId) # 0
    /\ readingContent.exists
    /\ paneOrigin = "none"

\* line 293: if (targetGroup && activeNodeGroup !== targetGroup)
IsNewTarget(target) == target # 0 /\ activeNodeGroup # target

\* objects of interactables the ray can meet first: a crystal or a sprite
\* (a core lies inside its crystal)
HitKinds == {"crystal", "sprite"}

\* function onMouseClick(event): hit is 0 when intersects is empty, else the
\* node of intersects[0].object, which is of the given kind
OnMouseClick(hit, kind) ==
    /\ frames >= 1
    /\ selects < MaxSelects
    /\ LET target == IF hit = 0 THEN 0
                     ELSE TargetGroup([kind |-> kind, node |-> hit])
       IN  /\ IF hit # 0
              THEN IF IsNewTarget(target)
                   THEN SelectGroup(target)
                   ELSE /\ UNCHANGED <<nodes, activeNodeGroup, readingPane,
                                       readingContent>>
                        /\ notified' = <<>>
              ELSE CloseReadingPane
           /\ lastSelect' = [hit |-> hit, target |-> target,
                             wasActive |-> activeNodeGroup, notes |-> notified']
           /\ thrown' = IF hit = 0 THEN CloseThrows
                         ELSE IsNewTarget(target) /\ SelectThrows(target)
    /\ selects' = selects + 1
    /\ UNCHANGED <<page, coreOpacity, paneOrigin, sectionDisplay, listeners,
                   frameLoop, viewport, nodeColor, frames, time, started,
                   repelled, drifted>>

\* window.addEventListener('mousedown', onMouseClick): a press whose target
\* is not looked at
MouseDown ==
    /\ "mousedown" \in listeners
    /\ \E hit \in 0..Len(nodes), kind \in HitKinds : OnMouseClick(hit, kind)
    /\ UNCHANGED <<pressInside, elsewhere>>

\* window.addEventListener('touchstart', ...): the same handler with the
\* coordinates of the first changed touch
TouchStart ==
    /\ "touchstart" \in listeners
    /\ \E hit \in 0..Len(nodes), kind \in HitKinds : OnMouseClick(hit, kind)
    /\ UNCHANGED <<pressInside, elsewhere>>

\* ------------------------------------------------------------ theme change
\* a theme-change listener that builds the nodes anew (a new random draw of
\* the rotation speed) instead of recolouring them
ThemeChangeRebuilds(color) ==
    /\ "theme-change" \in listeners
    /\ frames >= 1
    /\ nodeColor' = color
    /\ nodes' = [i \in NodeIds |->
                    [nodes[i] EXCEPT !.crystalColor = color, !.labelColor = color,
                                     !.rotationSpeed = Wrap(RotationSpeeds, i + 1)]]
    /\ notified' = <<>>
    /\ thrown' = FALSE
    /\ UNCHANGED <<page, coreOpacity, activeNodeGroup, paneOrigin, readingPane,
                   readingContent, sectionDisplay, listeners, frameLoop,
                   viewport, frames, selects, time, started, repelled, drifted,
                   lastSelect>>

\* the 'theme-change' listener: the wireframe crystals take the new colour
\* and every label is redrawn with it (every title is non-empty)
ThemeChange(color) ==
    /\ "theme-change" \in listeners
    /\ frames >= 1
    /\ nodeColor' = color
    /\ nodes' = [i \in NodeIds |->
                    [nodes[i] EXCEPT !.crystalColor = color, !.labelColor = color]]
    /\ notified' = <<>>
    /\ thrown' = FALSE
    /\ UNCHANGED <<page, coreOpacity, activeNodeGroup, paneOrigin, readingPane,
                   readingContent, sectionDisplay, listeners, frameLoop,
                   viewport, frames, selects, time, started, repelled, drifted,
                   lastSelect>>

\* ------------------------------------------------------------------ resize
\* a resize listener that also lets go of the selected node
OnResizeReleases(size) ==
    /\ "resize" \in listeners
    /\ frames >= 1
    /\ viewport' = size
    /\ nodes' = [i \in NodeIds |-> [nodes[i] EXCEPT !.isFrozen = FALSE]]
    /\ activeNodeGroup' = 0
    /\ notified' = <<>>
    /\ thrown' = FALSE
    /\ UNCHANGED <<page, coreOpacity, paneOrigin, readingPane, readingContent,
                   sectionDisplay, listeners, frameLoop, nodeColor, frames,
                   selects, time, started, repelled, drifted, lastSelect>>

\* the 'resize' listener: camera.aspect, renderer, composer and bloomPass
\* take the new size of the window
OnResize(size) ==
    /\ "resize" \in listeners
    /\ frames >= 1
    /\ viewport' = size
    /\ notified' = <<>>
    /\ thrown' = FALSE
    /\ UNCHANGED <<page, nodes, coreOpacity, activeNodeGroup, paneOrigin,
                   readingPane, readingContent, sectionDisplay, listeners,
                   frameLoop, nodeColor, frames, selects, time, started,
                   repelled, drifted, lastSelect>>

Frame == (\E t \in Times : Animate(t)) /\ UNCHANGED <<pressInside, elsewhere>>

Theme == (\E color \in Themes : ThemeChange(color)) /\ UNCHANGED <<pressInside, elsewhere>>

Resize ==
    (\E k \in 1..Len(Viewports) : OnResize(Viewports[k])) /\ UNCHANGED <<pressInside, elsewhere>>

Next == Frame \/ MouseDown \/ TouchStart \/ Theme \/ Resize

Spec == Init /\ [][Next]_vars

\* ------------------------------------------------ presses with their target
\* where event.target of a press can lie: in the reading pane only while the
\* pane takes pointer events (pointerEvents 'auto'); the pane is a fixed
\* overlay in the middle of the window, in front of the canvas, and the ray
\* through a point of it can meet a node behind it or none
PressInside == {FALSE} \cup {readingPane.pointerEvents = "auto"}

\* a mousedown delivered to window together with where its target lies;
\* onMouseClick reads clientX and clientY of the event and nothing else
TargetedMouseDown ==
    /\ "mousedown" \in listeners
    /\ \E hit \in 0..Len(nodes), kind \in HitKinds, inside \in PressInside :
           OnMouseClick(hit, kind) /\ pressInside' = inside /\ UNCHANGED elsewhere

\* a touchstart delivered to window together with where its target lies
TargetedTouchStart ==
    /\ "touchstart" \in listeners
    /\ \E hit \in 0..Len(nodes), kind \in HitKinds, inside \in PressInside :
           OnMouseClick(hit, kind) /\ pressInside' = inside /\ UNCHANGED elsewhere

\* requestAnimationFrame(animate), followed for one call more
LongFrame ==
    (\E t \in Times : AnimateWithin(t, MaxFrames + 1)) /\ UNCHANGED <<pressInside, elsewhere>>

PaneNext == LongFrame \/ TargetedMouseDown \/ TargetedTouchStart

\* the scene under frames and presses alone, one frame further
PaneSpec == Init /\ [][PaneNext]_vars

\* ---------------------------------------------------- entry scripts: the run
\* the details scene where no details page is looked at: initDetailsScene
\* found no container
NoScene == page = Len(Pages) /\ Untouched(Len(Pages))

\* The entry script s run from its first to its last statement, on a page
\* whose 'theme' item is item, that has the canvas container or not, where
\* building the scene throws (no WebGL context) or not, whose readyState is
\* 'complete' or not, and that has a #loader-overlay or not.  main.js
\* catches what initScene throws and calls removeLoader; in details-main.js
\* and docs-main.js the exception ends the script before applyTheme and
\* before the theme buttons get their listeners.  No timeout fires and no
\* event is delivered while the script runs.
Boot(s, item, container, glFails, ready, hasOverlay) ==
    LET thrown_ == container /\ glFails
        aborted == s # "landing" /\ thrown_
        applied == IF aborted THEN <<>> ELSE StartupThemes(item)
        built   == IF container /\ ~glFails
                   THEN [built |-> TRUE, color |-> SceneColours(s, item).color,
                         bg |-> SceneColours(s, item).bg]
                   ELSE [built |-> FALSE, color |-> "", bg |-> ""]
    IN  /\ script = s
        /\ storedTheme = item
        /\ cssTheme = IF applied # <<>> THEN CssOf(applied[1].color, applied[1].bg)
                      ELSE PreApplied(s, item)
        /\ sceneTheme = built
        /\ dispatches = applied
        /\ themeButtons = ~aborted
        /\ bodyLoaded = FALSE
        /\ overlay = IF hasOverlay THEN "shown" ELSE "absent"
        /\ loadListener = ~ready
        /\ loaderTimers =
              [fallback |-> 1,
               adding   |-> (IF ready THEN 1 ELSE 0)
                            + (IF s = "landing" /\ thrown_ THEN 1 ELSE 0),
               removing |-> 0]
        /\ booted = [item |-> item, container |-> container, glFails |-> glFails,
                     ready |-> ready, scene |-> built, startup |-> applied]
        /\ clicks = <<>>

\* a page opened: its entry script has run
PageInit ==
    /\ \E s \in Scripts, item \in StoredItems, container \in BOOLEAN,
          glFails \in BOOLEAN, ready \in BOOLEAN, hasOverlay \in BOOLEAN :
          /\ glFails => container
          /\ Boot(s, item, container, glFails, ready, hasOverlay)
    /\ NoScene
    /\ NotExploded

\* what the entry script's handlers leave alone besides pageVars
offPage == <<sceneVars, pressInside, landingVars>>

\* ------------------------------------------------------------------- loader
\* function removeLoader(): the pending timeouts after the call
RemoveLoader(timers) ==
    IF bodyLoaded THEN timers ELSE [timers EXCEPT !.adding = @ + 1]

\* window's load event, delivered to removeLoader where it was registered
LoadEvent ==
    /\ loadListener
    /\ loadListener' = FALSE
    /\ loaderTimers' = RemoveLoader(loaderTimers)
    /\ UNCHANGED <<script, storedTheme, cssTheme, sceneTheme, dispatches,
                   themeButtons, bodyLoaded, overlay, booted, clicks, offPage>>

\* setTimeout(removeLoader, 3000) fires
FallbackFires ==
    /\ loaderTimers.fallback > 0
    /\ loaderTimers' = RemoveLoader([loaderTimers EXCEPT !.fallback = 0])
    /\ UNCHANGED <<script, storedTheme, cssTheme, sceneTheme, dispatches,
                   themeButtons, bodyLoaded, overlay, loadListener, booted,
                   clicks, offPage>>

\* the outer timeout that adds class 'loaded' but sets no timeout to remove
\* the overlay
AddLoadedOnly ==
    /\ loaderTimers.adding > 0
    /\ bodyLoaded' = TRUE
    /\ loaderTimers' = [loaderTimers EXCEPT !.adding = @ - 1]
    /\ UNCHANGED <<script, storedTheme, cssTheme, sceneTheme, dispatches,
                   themeButtons, overlay, loadListener, booted, clicks, offPage>>

\* the outer timeout of removeLoader (500 ms) fires: class 'loaded' is added
\* and the inner timeout is set
AddLoaded ==
    /\ loaderTimers.adding > 0
    /\ bodyLoaded' = TRUE
    /\ loaderTimers' = [loaderTimers EXCEPT !.adding = @ - 1, !.removing = @ + 1]
    /\ UNCHANGED <<script, storedTheme, cssTheme, sceneTheme, dispatches,
                   themeButtons, overlay, loadListener, booted, clicks, offPage>>

\* the inner timeout of removeLoader (800 ms) fires: if (loader) loader.remove()
RemoveOverlay ==
    /\ loaderTimers.removing > 0
    /\ overlay' = IF overlay = "shown" THEN "removed" ELSE overlay
    /\ loaderTimers' = [loaderTimers EXCEPT !.removing = @ - 1]
    /\ UNCHANGED <<script, storedTheme, cssTheme, sceneTheme, dispatches,
                   themeButtons, bodyLoaded, loadListener, booted, clicks,
                   offPage>>

LoaderNext == LoadEvent \/ FallbackFires \/ AddLoaded \/ RemoveOverlay

\* The loader of a page.  The load event may never come; a timeout that is
\* set is run by the event loop once it is due, so each of the three
\* callbacks is taken when it stays pending.
LoaderSpec ==
    /\ PageInit
    /\ [][LoaderNext]_vars
    /\ WF_vars(FallbackFires)
    /\ WF_vars(AddLoaded)
    /\ WF_vars(RemoveOverlay)

\* the click listener of the b-th .theme-btn: localStorage.setItem('theme',
\* JSON.stringify({ color, bg })) and applyTheme(color, bg), which sets the
\* custom properties and sets the timeout of the dispatch
ThemeClick(b) ==
    /\ themeButtons
    /\ Len(clicks) < MaxClicks
    /\ storedTheme' = Stringify(ThemeButtons[b].color, ThemeButtons[b].bg)
    /\ cssTheme' = CssOf(ThemeButtons[b].color, ThemeButtons[b].bg)
    /\ dispatches' = Append(dispatches, ThemeButtons[b])
    /\ clicks' = Append(clicks, [button |-> b, pending |-> Len(dispatches)])
    /\ UNCHANGED <<script, sceneTheme, themeButtons, bodyLoaded, overlay,
                   loadListener, loaderTimers, booted, offPage>>

\* the timeouts of applyTheme run newest first
DispatchNewestFirst ==
    /\ dispatches # <<>>
    /\ LET detail == dispatches[Len(dispatches)]
       IN  sceneTheme' = IF sceneTheme.built
                         THEN [built |-> TRUE, color |-> Color(detail.color),
                               bg |-> Color(detail.bg)]
                         ELSE sceneTheme
    /\ dispatches' = SubSeq(dispatches, 1, Len(dispatches) - 1)
    /\ UNCHANGED <<script, storedTheme, cssTheme, themeButtons, bodyLoaded,
                   overlay, loadListener, loaderTimers, booted, clicks, offPage>>

\* The timeout of applyTheme that is due first fires (every one has the
\* same delay, so they fire in the order they were set): a theme-change
\* event with detail { color, bg } is dispatched on window, and the scene's
\* listener, where there is a scene, takes new THREE.Color(color) and new
\* THREE.Color(bg) for its materials and its fog
Dispatch ==
    /\ dispatches # <<>>
    /\ LET detail == Head(dispatches)
       IN  sceneTheme' = IF sceneTheme.built
                         THEN [built |-> TRUE, color |-> Color(detail.color),
                               bg |-> Color(detail.bg)]
                         ELSE sceneTheme
    /\ dispatches' = Tail(dispatches)
    /\ UNCHANGED <<script, storedTheme, cssTheme, themeButtons, bodyLoaded,
                   overlay, loadListener, loaderTimers, booted, clicks, offPage>>

Click == \E b \in 1..Len(ThemeButtons) : ThemeClick(b)

ThemeNext == Click \/ Dispatch

\* the theme of a page under clicks on its theme buttons
ThemeSpec == PageInit /\ [][ThemeNext]_vars

\* ----------------------------------------------------- landing scene: steps
\* uOpacity: { value: 1.0 } of a new explosionMat, in millionths
FullOpacity == 1000000

\* uOpacity.value *= 0.99, in hundredths
OpacityDecay == 99

\* if (explosionMat.uniforms.uOpacity.value < 0.01), in millionths
FadeThreshold == 10000

\* uOpacity.value *= 0.99
Decay(x) == (x * OpacityDecay) \div 100

\* function triggerExplosion(): particleCount velocities are pushed onto
\* explosionVelocities, the Points object is made and added, and the
\* respawn timeout is set
TriggerExplosion ==
    /\ isExploded' = TRUE
    /\ coreVisible' = FALSE
    /\ explosionVelocities' = explosionVelocities + ParticleCount
    /\ explosionParticles' = TRUE
    /\ uOpacity' = FullOpacity
    /\ respawnTimers' = respawnTimers + 1
    /\ explosions' = explosions + 1
    /\ UNCHANGED isHovered

\* a click listener that tests isHovered alone
OnClickWhileExploded ==
    /\ IF isHovered
       THEN explosions < MaxExplosions /\ TriggerExplosion /\ lastClick' = "exploded"
       ELSE /\ lastClick' = "ignored"
            /\ UNCHANGED <<isExploded, coreVisible, isHovered, explosionParticles,
                           explosionVelocities, uOpacity, respawnTimers,
                           explosions>>
    /\ UNCHANGED <<sceneVars, pressInside, pageVars>>

\* document.addEventListener('click', ...): if (!isExploded && isHovered)
\* triggerExplosion()
OnClick ==
    /\ IF ~isExploded /\ isHovered
       THEN explosions < MaxExplosions /\ TriggerExplosion /\ lastClick' = "exploded"
       ELSE /\ lastClick' = "ignored"
            /\ UNCHANGED <<isExploded, coreVisible, isHovered, explosionParticles,
                           explosionVelocities, uOpacity, respawnTimers,
                           explosions>>
    /\ UNCHANGED <<sceneVars, pressInside, pageVars>>

\* setTimeout(respawnCore, 4000) fires: function respawnCore()
RespawnCore ==
    /\ respawnTimers > 0
    /\ respawnTimers' = respawnTimers - 1
    /\ isExploded' = FALSE
    /\ coreVisible' = TRUE
    /\ isHovered' = FALSE
    /\ IF explosionParticles
       THEN explosionParticles' = FALSE /\ explosionVelocities' = 0
       ELSE UNCHANGED <<explosionParticles, explosionVelocities>>
    /\ UNCHANGED <<uOpacity, explosions, lastClick, sceneVars, pressInside,
                   pageVars>>

\* function animate() of the landing scene, the part about the core and the
\* explosion: hit tells whether the ray of the pointer meets the core,
\* scrolled whether the page is scrolled so far that the core's opacity is
\* not above 0.01.  The loop over explosionVelocities changes the entries
\* and the positions, not the length of the list.
LandingAnimate(hit, scrolled) ==
    /\ IF ~isExploded
       THEN /\ isHovered' = hit
            /\ coreVisible' = ~scrolled
            /\ UNCHANGED <<explosionParticles, uOpacity>>
       ELSE /\ IF explosionParticles
               THEN /\ uOpacity' = Decay(uOpacity)
                    /\ explosionParticles' = ~(Decay(uOpacity) < FadeThreshold)
               ELSE UNCHANGED <<explosionParticles, uOpacity>>
            /\ UNCHANGED <<isHovered, coreVisible>>
    /\ UNCHANGED <<isExploded, explosionVelocities, respawnTimers, explosions,
                   lastClick, sceneVars, pressInside, pageVars>>

LandingFrame == \E hit \in BOOLEAN, scrolled \in BOOLEAN : LandingAnimate(hit, scrolled)

LandingNext == LandingFrame \/ OnClick \/ RespawnCore

\* the landing scene as initScene has built it, no entry script looked at
LandingInit == NotExploded /\ NoScript /\ NoScene

\* The landing scene under frames, clicks and respawn timeouts.  How many
\* frames run in the four seconds of a respawn timeout is the display's
\* business: the timeout may fire before or after the explosion has faded.
LandingSpec == LandingInit /\ [][LandingNext]_vars

\* ================================================================== claims
FrozenNodes == {i \in NodeIds : nodes[i].isFrozen}

\* the last handler to run was onMouseClick (notified is what it issued)
AfterSelect == selects >= 1 /\ notified = lastSelect.notes

Shows(notes) == Cardinality({k \in 1..Len(notes) : notes[k].type = "show"})

Hides(notes) == Cardinality({k \in 1..Len(notes) : notes[k].type = "hide"})

\* C1: in every reachable state at most one node is frozen, and a node is
\* frozen if and only if it is the active group; with no active group no
\* node is frozen.
C1_OneFrozenIsActive ==
    /\ Cardinality(FrozenNodes) <= 1
    /\ \A i \in NodeIds : nodes[i].isFrozen <=> activeNodeGroup = i
    /\ activeNodeGroup = 0 => FrozenNodes = {}

\* C1 witness: a select has moved the selection from one node to another,
\* after a theme change and with frames run.
C1_Witness ==
    /\ lastSelect.wasActive # 0
    /\ activeNodeGroup # 0
    /\ activeNodeGroup # lastSelect.wasActive
    /\ nodeColor # DefaultColor
    /\ frames = MaxFrames

\* what C2 promises of the last pointer select when it hit the node n: the
\* node frozen before is not frozen, n is frozen and active, a show carrying
\* n's section id was issued and the pane is visible with n's section.
SelectedAndShown(n) ==
    /\ lastSelect.wasActive # 0 => ~nodes[lastSelect.wasActive].isFrozen
    /\ nodes[n].isFrozen
    /\ activeNodeGroup = n
    /\ lastSelect.notes = <<Show(nodes[n].originalSectionId)>>
    /\ readingPane = ShownStyle
    /\ readingContent.html = n

\* the last pointer select hit a node that was not the frozen node
HitOtherNode ==
    selects >= 1 /\ lastSelect.hit # 0 /\ lastSelect.hit # lastSelect.wasActive

\* C2: whenever the last pointer select hit a node N that was not the frozen
\* node, N is selected and shown: the node frozen before is released, N is
\* frozen and active, a show carrying N's section id was issued and the pane
\* is visible with N's section; for every node of the node set.
C2_HitSelectsAndShows == HitOtherNode => SelectedAndShown(lastSelect.hit)

\* C3: after a pointer select that hit nothing, no node is frozen, there is
\* no active group, a hide was issued and the pane is neither visible nor
\* accepting pointer events.
C3_MissCloses ==
    (selects >= 1 /\ lastSelect.hit = 0) =>
        /\ FrozenNodes = {}
        /\ activeNodeGroup = 0
        /\ lastSelect.notes = <<Hide>>
        /\ readingPane.opacity = "0"
        /\ readingPane.pointerEvents = "none"

\* C3 witness: a miss closed a pane that was showing the active node.
C3_Witness ==
    /\ selects >= 1
    /\ lastSelect.hit = 0
    /\ lastSelect.wasActive # 0
    /\ readingContent.html = lastSelect.wasActive

\* the step is a call of onMouseClick
IsSelectStep == selects' = selects + 1

\* C4: a pointer select that hits the node that is already frozen changes
\* no isFrozen flag, nor the active group, nor the pane's style or content,
\* and issues nothing; when the select before it was the one that froze
\* that node, the two selects together issued exactly one show and no hide.
C4_ReselectIsNoOp ==
    [][(IsSelectStep /\ lastSelect'.hit # 0 /\ nodes[lastSelect'.hit].isFrozen) =>
          /\ UNCHANGED <<nodes, activeNodeGroup, readingPane, readingContent>>
          /\ notified' = <<>>
          /\ (lastSelect.hit = lastSelect'.hit /\ lastSelect.wasActive # lastSelect.hit) =>
                /\ Shows(lastSelect.notes) + Shows(notified') = 1
                /\ Hides(lastSelect.notes) + Hides(notified') = 0]_vars

C6_AtMostOneNotification ==
    /\ Len(notified) <= 1
    /\ Len(lastSelect.notes) <= 1

\* C6 witness: a select that went from one frozen node straight to another
\* issued one show and no hide.
C6_Witness ==
    /\ AfterSelect
    /\ lastSelect.wasActive # 0
    /\ lastSelect.hit # 0
    /\ lastSelect.hit # lastSelect.wasActive
    /\ Shows(notified) = 1
    /\ Hides(notified) = 0

\* ------------------------------------------------ claims about a frame step
\* the bounds of the three axes, as the bounds check of animate tests them
AxisLow == <<0 - LimitX, 0 - LimitY, LimitZLow>>

AxisHigh == <<LimitX, LimitY, LimitZHigh>>

Axes == 1..3

\* the nodes i < j that the last frame found both drifting and closer
\* than minDistance
ClosePair(i, j) ==
    /\ i < j
    /\ ~started[i].isFrozen
    /\ ~started[j].isFrozen
    /\ IsClose(VecSub(started[i].position, started[j].position))

\* (v1' - v2' - (v1 - v2)) . (p1 - p2) over the last frame
RelativeGain(i, j) ==
    Dot(VecSub(VecSub(nodes[i].velocity, nodes[j].velocity),
               VecSub(started[i].velocity, started[j].velocity)),
        VecSub(started[i].position, started[j].position))

\* the position p lies within the bounds on every axis (no reflection)
InBounds(p) == \A a \in Axes : ~Gt(p[a], AxisHigh[a]) /\ ~Lt(p[a], AxisLow[a])

\* in the last frame the pair i, j was at two different places, no other
\* drifting node was closer than minDistance to either, and neither was
\* reflected at a bound
Undisturbed(i, j) ==
    /\ started[i].position # started[j].position
    /\ \A k \in NodeIds \ {i, j} :
          \/ started[k].isFrozen
          \/ /\ ~IsClose(VecSub(started[k].position, started[i].position))
             /\ ~IsClose(VecSub(started[k].position, started[j].position))
    /\ InBounds(drifted[i])
    /\ InBounds(drifted[j])

\* C7 as stated: for every pair of drifting nodes closer than minDistance at
\* the start of a frame, the change of their relative velocity over the
\* frame has a non-negative dot product with their relative position.
C7_Original ==
    frames >= 1 =>
        \A i, j \in NodeIds : ClosePair(i, j) => Ge(RelativeGain(i, j), 0)

\* every component of u is NaN
VecAllNaN(u) == IsNaN(u[1]) /\ IsNaN(u[2]) /\ IsNaN(u[3])

\* C7 as amended: the same, for the pairs at two different places that no
\* third drifting node is within minDistance of and that are not reflected
\* at a bound in that frame; a pair at one and the same place leaves the
\* repulsion phase with velocities that are NaN.
C7_PairRepels ==
    frames >= 1 =>
        \A i, j \in NodeIds :
            ClosePair(i, j) =>
                /\ Undisturbed(i, j) => Ge(RelativeGain(i, j), 0)
                /\ started[i].position = started[j].position =>
                      VecAllNaN(repelled[i]) /\ VecAllNaN(repelled[j])

\* C7 witness: a frame pushed such a pair apart.
C7_Witness ==
    /\ frames >= 1
    /\ \E i, j \in NodeIds :
          ClosePair(i, j) /\ Undisturbed(i, j) /\ Gt(RelativeGain(i, j), 0)

\* the position after the drift of the last frame lies beyond a bound of
\* axis a (for a frozen node: the position it is held at)
Exceeds(i, a) ==
    Gt(drifted[i][a], AxisHigh[a]) \/ Lt(drifted[i][a], AxisLow[a])

\* the bound that was exceeded
BoundMet(i, a) ==
    IF Gt(drifted[i][a], AxisHigh[a]) THEN AxisHigh[a] ELSE AxisLow[a]

\* the signs of a and b are opposite (a zero of either sign for a zero)
OppositeSigns(a, b) ==
    /\ ~IsNaN(a)
    /\ ~IsNaN(b)
    /\ (a > 0 <=> b < 0)
    /\ (a < 0 <=> b > 0)

\* C8 as stated: for every node and axis, a position component that exceeds
\* the bound during a frame equals the bound at the end of the frame, and
\* the velocity component has the opposite sign to the one before the
\* reflection.
C8_Original ==
    frames >= 1 =>
        \A i \in NodeIds, a \in Axes :
            Exceeds(i, a) =>
                /\ nodes[i].position[a] = BoundMet(i, a)
                /\ OppositeSigns(nodes[i].velocity[a], repelled[i][a])

\* C8 as amended: for every drifting node and axis, a position component
\* that exceeds the bound after the drift ends the frame equal to the bound
\* on the x and z axes and equal to the bound plus the frame's sway on the
\* y axis, with the velocity component negated; a frozen node is left where
\* it is.
C8_ClampAndFlip ==
    frames >= 1 =>
        \A i \in NodeIds :
            IF started[i].isFrozen
            THEN nodes[i].position = started[i].position
            ELSE \A a \in Axes :
                    Exceeds(i, a) =>
                        /\ nodes[i].position[a] =
                              IF a = 2 THEN Add(BoundMet(i, a), Sway(time, i))
                              ELSE BoundMet(i, a)
                        /\ nodes[i].velocity[a] = Neg(repelled[i][a])

\* C8 witness: a drifting node was beyond the x bound and the y bound; it
\* ended the frame on the x bound and off the y bound by its sway.
C8_Witness ==
    /\ frames >= 1
    /\ \E i \in NodeIds :
          /\ ~started[i].isFrozen
          /\ Gt(drifted[i][1], LimitX)
          /\ nodes[i].position[1] = LimitX
          /\ repelled[i][1] # 0
          /\ Gt(drifted[i][2], LimitY)
          /\ nodes[i].position[2] # LimitY

NotFrozen(n) == ~n.isFrozen

\* the place of node i among the drifting nodes of the last frame
Rank(i) == Cardinality({j \in 1..i : ~started[j].isFrozen})

\* C9: in a frame the velocity of a frozen node is unchanged, and the
\* repulsion phase leaves every drifting node with the velocity it would
\* get if the frozen nodes were not in the node set.
C9_FrozenOutOfRepulsion ==
    frames >= 1 =>
        LET alone == CollisionAvoidance(SelectSeq(started, NotFrozen))
        IN  \A i \in NodeIds :
                IF started[i].isFrozen
                THEN /\ repelled[i] = started[i].velocity
                     /\ nodes[i].velocity = started[i].velocity
                ELSE repelled[i] = alone[Rank(i)].velocity

\* C9 witness: a frame ran with a frozen node closer than minDistance to a
\* drifting node that another drifting node pushed.
C9_Witness ==
    /\ frames >= 2
    /\ \E f, i \in NodeIds :
          /\ started[f].isFrozen
          /\ ~started[i].isFrozen
          /\ IsClose(VecSub(started[f].position, started[i].position))
          /\ repelled[i] # started[i].velocity

\* clamp of one position component to the bounds of axis a
ClampAxis(p, a) ==
    IF Gt(p, AxisHigh[a]) THEN AxisHigh[a]
    ELSE IF Lt(p, AxisLow[a]) THEN AxisLow[a]
    ELSE p

\* C10: a frame leaves the position and the velocity of a frozen node as
\* they are, and moves every drifting node to its position plus its
\* velocity after the repulsion phase, clamped to the bounds, plus the sway
\* on the y axis.
C10_FrozenStaysPut ==
    [][frames' = frames + 1 =>
          \A i \in NodeIds :
              IF nodes[i].isFrozen
              THEN /\ nodes'[i].position = nodes[i].position
                   /\ nodes'[i].velocity = nodes[i].velocity
              ELSE nodes'[i].position =
                      <<ClampAxis(Add(nodes[i].position[1], repelled'[i][1]), 1),
                        Add(ClampAxis(Add(nodes[i].position[2], repelled'[i][2]), 2),
                            Sway(time', i)),
                        ClampAxis(Add(nodes[i].position[3], repelled'[i][3]), 3)>>]_vars

\* C10 witness: a frame ran with a frozen node that has a velocity and did
\* not move, while a drifting node moved.
C10_Witness ==
    /\ frames >= 2
    /\ \E f, i \in NodeIds :
          /\ started[f].isFrozen
          /\ nodes[f].velocity # <<0, 0, 0>>
          /\ nodes[f].position = started[f].position
          /\ ~started[i].isFrozen
          /\ nodes[i].position # started[i].position

\* ------------------------------------------------------ claims C11 to C20
\* the opacity the label and the crystal of the node n are eased toward
LabelTarget(n) == IF n.isFrozen THEN LabelFrozenOpacity ELSE LabelDriftOpacity

CrystalTarget(n) == IF n.isFrozen THEN CrystalFrozenOpacity ELSE CrystalDriftOpacity

Between(x, a, b) == (a <= x /\ x <= b) \/ (b <= x /\ x <= a)

\* value is what current += (target - current) * 0.1 makes of current, to
\* the resolution of the model; it is not past the target, and it is the
\* target only if current was within one unit of resolution of it
Eased(current, value, target) ==
    /\ Abs(LerpDivisor * value - ((LerpDivisor - 1) * current + target)) < LerpDivisor
    /\ Between(value, current, target)
    /\ value = target => Abs(target - current) <= 1

\* C11: a frame moves the label and the crystal opacity of every node by
\* current += (target - current) * 0.1 toward the drifting target (0.9, 0.5)
\* when the node is not frozen and toward the dimmed target (0.05, 0.1) when
\* it is; the opacity does not reach the target in one step, does not pass
\* it, and always lies between the dimmed and the drifting target.
C11_OpacityEases ==
    \A i \in NodeIds :
        /\ frames >= 1 =>
              /\ Eased(started[i].labelOpacity, nodes[i].labelOpacity,
                       LabelTarget(started[i]))
              /\ Eased(started[i].crystalOpacity, nodes[i].crystalOpacity,
                       CrystalTarget(started[i]))
        /\ Between(nodes[i].labelOpacity, LabelFrozenOpacity, LabelDriftOpacity)
        /\ Between(nodes[i].crystalOpacity, CrystalFrozenOpacity, CrystalDriftOpacity)

\* C11 witness: a frame dimmed the label and the crystal of a frozen node
\* part of the way, while a drifting node kept its drifting opacities.
C11_Witness ==
    /\ frames >= 2
    /\ \E f, i \in NodeIds :
          /\ started[f].isFrozen
          /\ nodes[f].labelOpacity < started[f].labelOpacity
          /\ nodes[f].labelOpacity > LabelFrozenOpacity
          /\ nodes[f].crystalOpacity < started[f].crystalOpacity
          /\ nodes[f].crystalOpacity > CrystalFrozenOpacity
          /\ ~started[i].isFrozen
          /\ nodes[i].labelOpacity = LabelDriftOpacity

\* the node initDetailsScene made for the i-th section of the page
Created(i) == NewNode(i, Pages[page].layout, Pages[page].noId)

\* C12: after initialization the node set is fixed: whatever frames, pointer
\* selects, resizes and theme changes have run, there is exactly one node for
\* each section of the page, in the order of creation, each with the
\* originalSectionId and the rotationSpeed it was created with.
C12_NodeSetFixed ==
    Pages[page].container =>
        /\ Len(nodes) = Pages[page].sections
        /\ \A i \in NodeIds :
              /\ nodes[i].originalSectionId = Created(i).originalSectionId
              /\ nodes[i].rotationSpeed = Created(i).rotationSpeed

\* C12 witness: every frame has run, a node is selected, the theme and the
\* window size have changed.
C12_Witness ==
    /\ frames = MaxFrames
    /\ Len(nodes) = NumNodes
    /\ activeNodeGroup # 0
    /\ nodeColor # DefaultColor
    /\ viewport # Viewports[1]

\* a number of JavaScript, as a component of a position or a velocity
IsNumber(x) == x \in Int

IsVector(v) == Len(v) = 3 /\ \A a \in Axes : IsNumber(v[a])

\* C13: whatever the node set (the empty one included) and whatever frames
\* and pointer selects (misses, hits, the same node again) have run, no
\* handler has ended with an uncaught exception, and the state is a defined
\* one: the active group is null or a node, every isFrozen is a boolean,
\* every position and velocity is a vector of numbers, and the pane's style
\* is the hidden or the shown one.
C13_NoFailingInput ==
    /\ thrown = FALSE
    /\ activeNodeGroup \in 0..Len(nodes)
    /\ \A i \in NodeIds :
          /\ nodes[i].isFrozen \in BOOLEAN
          /\ IsVector(nodes[i].position)
          /\ IsVector(nodes[i].velocity)
    /\ Pages[page].container => readingPane \in {HiddenStyle, ShownStyle}

\* C13 witness: on a page without sections every frame and every pointer
\* select has run.
C13_Witness ==
    /\ Pages[page].container
    /\ Len(nodes) = 0
    /\ frames = MaxFrames
    /\ selects = MaxSelects
    /\ lastSelect.notes = <<Hide>>

\* C14: when the container element is not found, initDetailsScene has done
\* nothing: there is no node, every section is displayed as the page has
\* it, no reading pane was created, no listener is registered, and no frame
\* runs and no handler is ever called.
C14_NoContainerNoScene ==
    ~Pages[page].container =>
        /\ nodes = <<>>
        /\ \A k \in 1..Len(sectionDisplay) : sectionDisplay[k] # "none"
        /\ paneOrigin = "none"
        /\ listeners = {}
        /\ ~frameLoop
        /\ frames = 0
        /\ selects = 0
        /\ nodeColor = DefaultColor
        /\ viewport = Viewports[1]

\* C14 witness: initDetailsScene was given a page with sections but without
\* the container element.
C14_Witness ==
    /\ ~Pages[page].container
    /\ Len(sectionDisplay) = NumNodes
    /\ Pages[page].sections = NumNodes

\* the isFrozen flags, in the order of the nodes
Flags(ns) == [i \in 1..Len(ns) |-> ns[i].isFrozen]

\* C15: the isFrozen flags and the active group change only in a call of
\* onMouseClick: a frame (like every step that is not a pointer select)
\* leaves every isFrozen flag, the active group and the pane's style and
\* content as they are and issues neither a show nor a hide.
C15_OnlySelectChangesSelection ==
    [][selects' = selects =>
          /\ Flags(nodes') = Flags(nodes)
          /\ activeNodeGroup' = activeNodeGroup
          /\ readingPane' = readingPane
          /\ readingContent' = readingContent
          /\ notified' = <<>>]_vars

\* C15 witness: a frame ran while a node was frozen and shown, and left
\* it so.
C15_Witness ==
    /\ frames >= 2
    /\ notified = <<>>
    /\ \E f \in NodeIds :
          /\ started[f].isFrozen
          /\ nodes[f].isFrozen
          /\ activeNodeGroup = f
          /\ nodes[f].labelOpacity < LabelDriftOpacity
    /\ readingPane = ShownStyle

\* the positions and the velocities, in the order of the nodes
Motion(ns) == [i \in 1..Len(ns) |-> <<ns[i].position, ns[i].velocity>>]

\* C16: a theme-change event and a resize event (the steps that are neither
\* a frame nor a pointer select) leave the position, the velocity and the
\* isFrozen flag of every node and the active group unchanged.
C16_ThemeAndResizeKeepNodes ==
    [][(frames' = frames /\ selects' = selects) =>
          /\ Motion(nodes') = Motion(nodes)
          /\ Flags(nodes') = Flags(nodes)
          /\ activeNodeGroup' = activeNodeGroup]_vars

\* C16 witness: the theme and the window size have changed while a node was
\* frozen and after the nodes had moved.
C16_Witness ==
    /\ nodeColor # DefaultColor
    /\ viewport # Viewports[1]
    /\ \E i \in NodeIds :
          /\ nodes[i].labelColor = nodeColor
          /\ nodes[i].isFrozen
          /\ activeNodeGroup = i
    /\ \E j \in NodeIds : nodes[j].position # Created(j).position

\* the reading pane is visible
PaneVisible == readingPane.opacity = "1"

\* C17: the reading pane is visible if and only if some node is frozen, and
\* when it is visible its content is that of the section the frozen node's
\* originalSectionId identifies; after any pointer selects, also on a page
\* where #reading-content cannot be found.
C17_PaneIffFrozen ==
    /\ PaneVisible <=> FrozenNodes # {}
    /\ PaneVisible =>
          /\ activeNodeGroup # 0
          /\ readingContent.html =
                GetSectionById(nodes[activeNodeGroup].originalSectionId)

\* the squared length of d against the squared threshold 9.0: -1 below,
\* 0 equal, 1 above (also when a component is NaN: the comparison of the
\* code is then false)
AgainstThreshold(d) ==
    IF VecHasNaN(d) \/ \E a \in Axes : Abs(d[a]) > MinDistance THEN 1
    ELSE LET sq == d[1] * d[1] + d[2] * d[2] + d[3] * d[3]
         IN  IF sq < MinDistance * MinDistance THEN -1
             ELSE IF sq = MinDistance * MinDistance THEN 0 ELSE 1

\* at the start of the last frame the nodes i and j were two drifting nodes
\* strictly closer than the threshold
Partners(i, j) ==
    /\ i # j
    /\ ~started[i].isFrozen
    /\ ~started[j].isFrozen
    /\ AgainstThreshold(VecSub(started[i].position, started[j].position)) = -1

\* the sum of the impulses on node i from its partners j, j + 1, ...
RECURSIVE NetImpulse(_, _)
NetImpulse(i, j) ==
    IF j > Len(started) THEN <<0, 0, 0>>
    ELSE VecAdd(IF Partners(i, j)
                THEN PairImpulse(started[i].position, started[j].position)
                ELSE <<0, 0, 0>>,
                NetImpulse(i, j + 1))

\* C18: the repulsion phase of a frame adds to the velocity of every node
\* one impulse for each drifting node strictly closer to it than 9.0, and
\* nothing else: a pair gets its impulse if and only if both nodes drift
\* and their distance is below the threshold, and a node with no drifting
\* node closer than 9.0 leaves the phase with the velocity it had.
C18_ImpulseIffClose ==
    frames >= 1 =>
        \A i \in NodeIds :
            /\ repelled[i] = VecAdd(started[i].velocity, NetImpulse(i, 1))
            /\ (\A j \in NodeIds : ~Partners(i, j)) =>
                  repelled[i] = started[i].velocity

\* C18 witness: a frame found a drifting node at exactly 9.0 from a second
\* one and nearer to none: it kept its velocity, while the second was pushed
\* by a third, nearer than 9.0.
C18_Witness ==
    /\ frames >= 1
    /\ \E i, j, k \in NodeIds :
          /\ ~started[i].isFrozen
          /\ ~started[j].isFrozen
          /\ AgainstThreshold(VecSub(started[i].position, started[j].position)) = 0
          /\ \A n \in NodeIds : ~Partners(i, n)
          /\ repelled[i] = started[i].velocity
          /\ Partners(j, k)
          /\ repelled[j] # started[j].velocity
          /\ ~VecHasNaN(repelled[j])

\* the sum of the vectors vs[k], vs[k + 1], ...
RECURSIVE VecSum(_, _)
VecSum(vs, k) ==
    IF k > Len(vs) THEN <<0, 0, 0>> ELSE VecAdd(vs[k], VecSum(vs, k + 1))

\* u === v component by component, as JavaScript compares numbers
SameVector(u, v) == ~VecHasNaN(u) /\ ~VecHasNaN(v) /\ u = v

\* the velocities of the nodes ns, in their order
Velocities(ns) == [i \in 1..Len(ns) |-> ns[i].velocity]

\* C19: the impulses of the repulsion phase are equal and opposite, so the
\* vector sum of the velocities of all nodes is the same after the repulsion
\* phase of a frame as before it, however many pairs overlap.
C19_MomentumKept ==
    frames >= 1 =>
        SameVector(VecSum(repelled, 1), VecSum(Velocities(started), 1))

\* lo <= p <= hi as JavaScript compares numbers
Within(p, lo, hi) == Ge(p, lo) /\ Ge(hi, p)

\* C20 as stated: in every state after the first frame every node, frozen
\* or not, has -14 <= x <= 14, -7 <= y <= 7 and -10 <= z <= 5.
C20_Original ==
    frames >= 1 =>
        \A i \in NodeIds, a \in Axes :
            Within(nodes[i].position[a], AxisLow[a], AxisHigh[a])

\* how far beyond the bound of axis a a node can lie: the sway on the y axis
Slack(a) == IF a = 2 THEN SwayAmplitude ELSE 0

\* C20 as amended: in every state after the first frame every node, frozen
\* or not, has -14 <= x <= 14, -10 <= z <= 5 and y within the bounds -7 and
\* 7 widened by the amplitude 0.002 of the sway; or the component is NaN,
\* and then the node's velocity is NaN too.
C20_OnScreenUpToSway ==
    frames >= 1 =>
        \A i \in NodeIds, a \in Axes :
            IF IsNaN(nodes[i].position[a])
            THEN VecAllNaN(nodes[i].velocity)
            ELSE Within(nodes[i].position[a],
                        AxisLow[a] - Slack(a), AxisHigh[a] + Slack(a))

\* C20 witness: a node created outside the bounds on every axis lies on the
\* x and the z bound and beyond the y bound by the sway, and a node is
\* frozen.
C20_Witness ==
    /\ frames >= 1
    /\ \E i, f \in NodeIds :
          /\ Gt(Created(i).position[1], LimitX)
          /\ Gt(Created(i).position[3], LimitZHigh)
          /\ nodes[i].position[1] = LimitX
          /\ nodes[i].position[3] = LimitZHigh
          /\ nodes[i].position[2] = LimitY + SwayAmplitude
          /\ nodes[f].isFrozen

\* a step of onMouseClick for a press whose target lay inside the reading
\* pane (which then was visible and took pointer events)
IsPressInsidePane == selects' = selects + 1 /\ pressInside'

\* C21: a mousedown or touchstart whose target lies inside the visible
\* reading pane never unfreezes the active node, never hides the pane and
\* never switches the selection to another node: such a press leaves the
\* active group, every node's isFrozen and the pane's style as they were.
C21_PressInsideKeepsPane ==
    [][IsPressInsidePane =>
          /\ activeNodeGroup' = activeNodeGroup
          /\ \A i \in NodeIds : nodes'[i].isFrozen = nodes[i].isFrozen
          /\ readingPane' = readingPane]_vars

\* an opacity that lies below its drifting value by more than the model
\* resolves is nearer to it after the step
Recovers(current, value, target) ==
    current < target - LerpDivisor => value > current /\ value <= target

\* C22: once a node is unfrozen and frames keep running, each opacity that
\* was dimmed while it was frozen (label, crystal, inner core) returns to
\* within any tolerance of its drifting value (0.9, 0.5, 1.0).  A frame
\* computes the new opacities from the old ones and the isFrozen flags
\* alone, so this requires every frame that finds no node frozen to move
\* each dimmed opacity of each node nearer to its drifting value.
C22_DimmedOpacityRecovers ==
    [][frames' = frames + 1 /\ FrozenNodes = {} =>
          \A i \in NodeIds :
              /\ Recovers(nodes[i].labelOpacity, nodes'[i].labelOpacity,
                          LabelDriftOpacity)
              /\ Recovers(nodes[i].crystalOpacity, nodes'[i].crystalOpacity,
                          CrystalDriftOpacity)
              /\ Recovers(coreOpacity, coreOpacity', CoreInitialOpacity)]_vars

\* the last frame clamped node i on axis a at the upper (lower) bound
ClampedHigh(i, a) == ~started[i].isFrozen /\ Gt(drifted[i][a], AxisHigh[a])

ClampedLow(i, a) == ~started[i].isFrozen /\ Lt(drifted[i][a], AxisLow[a])

\* C23: after a frame in which a node's position component was clamped to a
\* bound, the node's velocity component on that axis points away from the
\* bound or is zero: not positive after a clamp at the upper bound, not
\* negative after a clamp at the lower bound; nodes created outside the
\* bounds included.
C23_VelocityLeavesBound ==
    frames >= 1 =>
        \A i \in NodeIds, a \in Axes :
            /\ ClampedHigh(i, a) => Ge(0, nodes[i].velocity[a])
            /\ ClampedLow(i, a) => Ge(nodes[i].velocity[a], 0)

\* C24: the repulsion never divides by a zero distance: in every reachable
\* state, two drifting nodes at exactly the same position included, every
\* position and velocity component of every node is a finite number.
C24_ComponentsFinite ==
    \A i \in NodeIds :
        ~VecHasNaN(nodes[i].position) /\ ~VecHasNaN(nodes[i].velocity)

\* node m drifts before and after the step while another node is frozen
DriftsBesideFrozen(m) ==
    /\ ~nodes[m].isFrozen
    /\ ~nodes'[m].isFrozen
    /\ \E k \in NodeIds : k # m /\ nodes[k].isFrozen

\* C25: freezing a node affects that node's visuals alone: while another
\* node is frozen, no step lowers an opacity that belongs to a node M that
\* is not frozen: M's label, M's crystal, or the material of M's inner core.
C25_FreezeDimsOnlyFrozen ==
    [][\A m \in NodeIds :
          DriftsBesideFrozen(m) =>
              /\ nodes'[m].labelOpacity >= nodes[m].labelOpacity
              /\ nodes'[m].crystalOpacity >= nodes[m].crystalOpacity
              /\ coreOpacity' >= coreOpacity]_vars

LastClicked == ThemeButtons[clicks[Len(clicks)].button]

\* C27: after any sequence of theme-button clicks (clicks made while an
\* earlier dispatch is pending included), once every pending dispatch has
\* fired, the colours of the page's scene, where the page has a scene, the
\* custom properties and the parsed 'theme' item are all those of the
\* button clicked last.
C27_ThemeSettles ==
    (clicks # <<>> /\ dispatches = <<>>) =>
        /\ sceneTheme.built =>
              /\ sceneTheme.color = Color(LastClicked.color)
              /\ sceneTheme.bg = Color(LastClicked.bg)
        /\ cssTheme = CssOf(LastClicked.color, LastClicked.bg)
        /\ JSONParse(storedTheme).type = "object"
        /\ JSONParse(storedTheme).color = LastClicked.color
        /\ JSONParse(storedTheme).bg = LastClicked.bg

\* C27 witness: a page opened with a stored theme; the last click, on
\* another button than the one before, was made while the dispatches of the
\* stored theme and of the click before were pending, and every dispatch
\* has fired.
C27_Witness ==
    /\ booted.startup # <<>>
    /\ sceneTheme.built
    /\ Len(clicks) = MaxClicks
    /\ clicks[Len(clicks)].button # clicks[Len(clicks) - 1].button
    /\ clicks[Len(clicks)].pending >= 2
    /\ dispatches = <<>>
    /\ sceneTheme.color = LastClicked.color
    /\ sceneTheme # booted.scene

\* the 'theme' item the page was opened with is no theme: there is none, or
\* its text is not JSON, or it is the JSON of a value that is no object
NoThemeStored == booted.item.json # "object"

\* C28: a missing, unparsable or non-object 'theme' item never keeps a page
\* from initializing: where the container exists and the scene can be
\* built, the scene is created with the default colours, no theme-change
\* event is set to be dispatched for the item, and the theme buttons have
\* their listeners.
C28_BadItemIsIgnored ==
    (NoThemeStored /\ booted.container /\ ~booted.glFails) =>
        /\ booted.scene.built
        /\ booted.scene.color = DefaultTheme(script).color
        /\ booted.scene.bg = DefaultTheme(script).bg
        /\ booted.startup = <<>>
        /\ themeButtons

\* C29: on the landing page, whatever clicks, frames and respawn timeouts
\* have run: explosion particles exist only while isExploded, the core is
\* not visible while isExploded, at most one respawn timeout is pending, and
\* a click starts an explosion only if the core was hovered and not
\* exploded.
C29_ExplosionDiscipline ==
    /\ [](/\ explosionParticles => isExploded
          /\ isExploded => ~coreVisible
          /\ respawnTimers <= 1)
    /\ [][explosions' # explosions => isHovered /\ ~isExploded]_vars

\* C29 witness: a second explosion is under way after a respawn, its
\* particles faded out and removed by the frame loop before the respawn
\* timeout has fired, and a click was ignored meanwhile.
C29_Witness ==
    /\ explosions = 2
    /\ isExploded
    /\ ~explosionParticles
    /\ respawnTimers = 1
    /\ lastClick = "ignored"

\* C30: the velocity list matches the live explosion: it is empty whenever
\* the core is not exploded and has exactly one entry for each of the 2000
\* particles whenever explosion particles exist, for every explosion and
\* whichever of the fade-out removal and the respawn timeout comes first.
C30_VelocitiesMatchParticles ==
    /\ ~isExploded => explosionVelocities = 0
    /\ explosionParticles => explosionVelocities = ParticleCount

====
